---- MODULE Spec2Model ----
(***************************************************************************)
(* Model of the PDF chat application: the Index page (DragDropZone.tsx,    *)
(* second half), the DragDropZone upload component and the ChatInterface   *)
(* component (ChatInterface.tsx, second definition, lines 247-658: the one *)
(* with the provider selection and the chart extraction).                  *)
(*                                                                         *)
(* Strings are sequences of tokens.  A token stands for a fixed piece of   *)
(* text that contains neither a backtick, nor a newline, nor the word      *)
(* "chart" unless it is that piece itself:                                 *)
(*   "BT"  three backticks            "CH"  the word chart                 *)
(*   "NL"  a newline                  "SP"  a space                        *)
(*   "A"   the letter A (prose)       "Q"   the letter Q (a question)      *)
(*   "JC"  {"type":"bar","data":[{"name":"a","value":1}],                  *)
(*          "xKey":"name","yKey":"value"}                                  *)
(*   "JO"  {}      "J0"  0      "JN"  null                                 *)
(* Message ids are decimal strings of numbers; they are modelled by the    *)
(* numbers themselves (toString is injective on them).                     *)
(***************************************************************************)
EXTENDS Naturals, Sequences, FiniteSets, Bags

VARIABLES
    uploadedFile,   \* Index: the uploaded file record, or NoFile
    extracting,     \* the calls of DragDropZone.handleFile that await processPDF: a bag of
                    \* files, one copy per call
    nMounts,        \* number of ChatInterface instances mounted so far
    mounted,        \* whether a ChatInterface instance is mounted (its id is nMounts)
    messages,       \* ChatInterface state: the history
    inputValue,     \* ChatInterface state: the text of the question input
    isLoading,      \* ChatInterface state: the pending flag
    apiKey,         \* ChatInterface state: the credential
    aiProvider,     \* ChatInterface state: the selected provider
    localStorage,   \* browser storage: ai_api_key and ai_provider entries
    requests,       \* one entry per fetch dispatched so far: the closure of the
                    \* handleSubmit call awaiting it, or Settled once it has run on
    now,            \* Date.now()
    ev,             \* the handler that ran last, its outcome and the toast it raised
    needKey,        \* history: a provider change happened and no non-empty key was entered since
    keyEnteredFor,  \* history: the provider that was selected when the persisted key was
                    \* entered, "" while no key is persisted
    pc,             \* parser study: "start", "parsed" or "reparsed"
    reply,          \* parser study: the raw reply
    parsed,         \* parser study: result of the extraction on reply
    reparsed        \* parser study: result of the extraction on parsed.text

vars == << uploadedFile, extracting, nMounts, mounted, messages, inputValue,
           isLoading, apiKey, aiProvider, localStorage, requests, now, ev,
           needKey, keyEnteredFor, pc, reply, parsed, reparsed >>

chatVars == << messages, inputValue, isLoading, apiKey, aiProvider >>
indexVars == << uploadedFile, extracting, nMounts, mounted >>
parserVars == << pc, reply, parsed, reparsed >>

----------------------------------------------------------------------------
(* Bounds of the model *)

MaxRequests == 2
MaxMounts == 2
MaxExtractions == 2
MaxTime == 1
MaxSegs == 3

----------------------------------------------------------------------------
(* Values *)

NoFile == [name |-> "", type |-> "", size |-> 0, text |-> <<>>]
Null == "null"
Undefined == "undefined"
NoToast == "none"

Epoch == 1000

Whitespace == {"SP", "NL"}

RECURSIVE TrimStart(_)
TrimStart(s) ==
    IF s # <<>> /\ Head(s) \in Whitespace THEN TrimStart(Tail(s)) ELSE s

RECURSIVE TrimEnd(_)
TrimEnd(s) ==
    IF s # <<>> /\ s[Len(s)] \in Whitespace
    THEN TrimEnd(SubSeq(s, 1, Len(s) - 1))
    ELSE s

Trim(s) == TrimEnd(TrimStart(s))

----------------------------------------------------------------------------
(* Response parser: the chart extraction of handleSubmit *)

Block(content) == <<"BT", "CH", "NL">> \o content \o <<"NL", "BT">>

\* the regex's opening ```chart\n at position i
IsOpenerAt(s, i) ==
    i + 2 <= Len(s) /\ s[i] = "BT" /\ s[i + 1] = "CH" /\ s[i + 2] = "NL"

\* the regex's closing \n``` at position j
IsCloserAt(s, j) ==
    j + 1 <= Len(s) /\ s[j] = "NL" /\ s[j + 1] = "BT"

\* /```chart\n([\s\S]*?)\n```/ : the leftmost start that has a match, and from
\* it the shortest content (the group is lazy).  start is the position of the
\* opener, close the position of the closer; the match is s[start .. close+1]
\* and the group is s[start+3 .. close-1].
RegexMatches(s) ==
    { m \in [start : 1..Len(s), close : 1..Len(s)] :
        /\ IsOpenerAt(s, m.start)
        /\ m.close >= m.start + 3
        /\ IsCloserAt(s, m.close) }

ChartMatch(s) ==
    LET ms == RegexMatches(s)
    IN IF ms = {} THEN [found |-> FALSE, start |-> 0, close |-> 0]
       ELSE LET starts == { m.start : m \in ms }
                i == CHOOSE a \in starts : \A b \in starts : a <= b
                closes == { m.close : m \in { x \in ms : x.start = i } }
                j == CHOOSE a \in closes : \A b \in closes : a <= b
            IN [found |-> TRUE, start |-> i, close |-> j]

MatchGroup(s, m) == SubSeq(s, m.start + 3, m.close - 1)

JsonTokens == {"JC", "JO", "J0", "JN"}

\* the value JSON.parse gives for the text of a JSON token
JsonValue(tok) ==
    CASE tok = "JC" -> [json |-> "object", type |-> "bar", data |-> "array",
                        xKey |-> "name", yKey |-> "value"]
      [] tok = "JO" -> [json |-> "object", type |-> Undefined, data |-> Undefined,
                        xKey |-> Undefined, yKey |-> Undefined]
      [] tok = "J0" -> [json |-> "number", type |-> Undefined, data |-> Undefined,
                        xKey |-> Undefined, yKey |-> Undefined]
      [] OTHER      -> [json |-> "null", type |-> Undefined, data |-> Undefined,
                        xKey |-> Undefined, yKey |-> Undefined]

JsonNull == JsonValue("JN")

\* a Message without a chartData member
NoChartData == [json |-> "undefined", type |-> Undefined, data |-> Undefined,
                xKey |-> Undefined, yKey |-> Undefined]

\* faulty variant: a text that is not JSON parses to null instead of throwing
JSONparseLenient(s) ==
    LET t == Trim(s)
    IN [ok |-> TRUE,
        value |-> IF Len(t) = 1 /\ t[1] \in JsonTokens THEN JsonValue(t[1]) ELSE JsonNull]

\* JSON.parse: one JSON value with optional whitespace around it, else a SyntaxError
JSONparse(s) ==
    LET t == Trim(s)
    IN IF Len(t) = 1 /\ t[1] \in JsonTokens
       THEN [ok |-> TRUE, value |-> JsonValue(t[1])]
       ELSE [ok |-> FALSE, value |-> JsonNull]

\* faulty variant: the regex with the g flag, every match removed
RECURSIVE ReplaceAllMatches(_, _)
ReplaceAllMatches(s, m) ==
    LET rest == SubSeq(s, m.close + 2, Len(s))
    IN SubSeq(s, 1, m.start - 1)
         \o (IF ChartMatch(rest).found THEN ReplaceAllMatches(rest, ChartMatch(rest))
             ELSE rest)

\* aiResponse.replace(chartRegex, ''): the first match removed
ReplaceMatch(s, m) == SubSeq(s, 1, m.start - 1) \o SubSeq(s, m.close + 2, Len(s))

\* faulty variant: the block is removed before its contents are parsed
ExtractChartStripsFirst(aiResponse) ==
    LET chartMatch == ChartMatch(aiResponse)
    IN IF chartMatch.found
       THEN [cleanedText |-> Trim(ReplaceMatch(aiResponse, chartMatch)),
             chartData |-> JSONparse(MatchGroup(aiResponse, chartMatch)).value]
       ELSE [cleanedText |-> aiResponse, chartData |-> JsonNull]

\* lines 447-460: chartData starts null and cleanedText starts as the reply; both
\* are assigned only when the match exists and JSON.parse does not throw
ExtractChart(aiResponse) ==
    LET chartMatch == ChartMatch(aiResponse)
    IN IF chartMatch.found /\ JSONparse(MatchGroup(aiResponse, chartMatch)).ok
       THEN [cleanedText |-> Trim(ReplaceMatch(aiResponse, chartMatch)),
             chartData |-> JSONparse(MatchGroup(aiResponse, chartMatch)).value]
       ELSE [cleanedText |-> aiResponse, chartData |-> JsonNull]

----------------------------------------------------------------------------
(* Provider client: callOpenAI, callGemini, callAI *)

Providers == {"openai", "gemini"}

\* 'Sorry, I could not generate a response.'
Fallback == <<"SORRY">>

\* What the fetch of a request can come to.  A body is the parsed JSON of a
\* success response, by the shape of its envelope:
\*   invalidJSON  response.json() rejects
\*   noList       no choices / candidates member
\*   emptyList    choices / candidates is []
\*   noText       the first item has no message.content / content.parts[0].text
\*   emptyText    that text is ''
\*   nonString    that text is a truthy value that is not a string
\*   text         that text is the string in the text field
SampleReplies ==
    { <<"A", "SP">> \o Block(<<"JC">>) \o <<"SP", "A">>,
      Block(<<"A">>) }

Bodies ==
    [shape : {"invalidJSON", "noList", "emptyList", "noText", "emptyText", "nonString"},
     text : {<<>>}]
    \cup [shape : {"text"}, text : SampleReplies]

Responses ==
    [kind : {"networkError", "httpError"}, body : {[shape |-> "invalidJSON", text |-> <<>>]}]
    \cup [kind : {"httpOk"}, body : Bodies]

Thrown == [threw |-> TRUE, value |-> <<>>, isString |-> FALSE]
Returned(v) == [threw |-> FALSE, value |-> v, isString |-> TRUE]

\* lines 347-353: data.choices[0]?.message?.content || fallback
callOpenAI(key, resp) ==
    IF key = "" THEN Thrown
    ELSE IF resp.kind # "httpOk" THEN Thrown
    ELSE CASE resp.body.shape = "invalidJSON" -> Thrown
           [] resp.body.shape = "noList" -> Thrown
           [] resp.body.shape \in {"emptyList", "noText", "emptyText"} -> Returned(Fallback)
           [] resp.body.shape = "nonString" ->
                [threw |-> FALSE, value |-> <<>>, isString |-> FALSE]
           [] OTHER -> Returned(resp.body.text)

\* lines 402-408: data.candidates?.[0]?.content?.parts?.[0]?.text || fallback
callGemini(key, resp) ==
    IF key = "" THEN Thrown
    ELSE IF resp.kind # "httpOk" THEN Thrown
    ELSE CASE resp.body.shape = "invalidJSON" -> Thrown
           [] resp.body.shape \in {"noList", "emptyList", "noText", "emptyText"} ->
                Returned(Fallback)
           [] resp.body.shape = "nonString" ->
                [threw |-> FALSE, value |-> <<>>, isString |-> FALSE]
           [] OTHER -> Returned(resp.body.text)

callAI(provider, key, resp) ==
    IF provider = "openai" THEN callOpenAI(key, resp) ELSE callGemini(key, resp)

----------------------------------------------------------------------------
(* Values of the controller *)

KeyValues == {"", "kA", "kB"}

InputValues == { <<>>, <<"SP">>, <<"Q", "SP">> }

MaxFileSize == 10 * 1024 * 1024

\* text is what processPDF returns for the file (already trimmed)
Files ==
    { [name |-> "a.pdf", type |-> "application/pdf", size |-> 1024, text |-> <<"A">>],
      [name |-> "n.txt", type |-> "text/plain", size |-> 1024, text |-> <<"A">>],
      [name |-> "big.pdf", type |-> "application/pdf", size |-> MaxFileSize + 1,
       text |-> <<"A">>] }

\* ev: the handler that ran in the last step (op), what it came to (outcome),
\* the title of the toast it raised (toast) and, for the continuation of
\* handleSubmit, the request it continued (rid) and what its fetch came to
Event(op, outcome, toast) ==
    [op |-> op, outcome |-> outcome, toast |-> toast, rid |-> 0, kind |-> "", shape |-> ""]
ResolveEvent(outcome, toast, rid, resp) ==
    [op |-> "handleSubmit.await", outcome |-> outcome, toast |-> toast, rid |-> rid,
     kind |-> resp.kind, shape |-> resp.body.shape]

\* lines 279-286
Greeting(fileName) ==
    [id |-> 1, text |-> <<"HELLO", fileName>>, sender |-> "ai", chartData |-> NoChartData]

\* the state of the component while none is mounted
Unmounted ==
    /\ mounted' = FALSE
    /\ messages' = <<>>
    /\ inputValue' = <<>>
    /\ isLoading' = FALSE
    /\ apiKey' = ""
    /\ aiProvider' = "gemini"

\* lines 278-292: the useState initialisers of a new instance
Mount(fileName) ==
    /\ mounted' = TRUE
    /\ nMounts' = nMounts + 1
    /\ messages' = << Greeting(fileName) >>
    /\ inputValue' = <<>>
    /\ isLoading' = FALSE
    /\ apiKey' = (IF localStorage.ai_api_key = Null THEN "" ELSE localStorage.ai_api_key)
    /\ aiProvider' = (IF localStorage.ai_provider = Null THEN "gemini"
                      ELSE localStorage.ai_provider)

----------------------------------------------------------------------------
(* Index and DragDropZone *)

\* DragDropZone.handleFile up to its await of processPDF
handleFile(file) ==
    /\ UNCHANGED << uploadedFile, nMounts, mounted, chatVars, localStorage, requests,
                    now, needKey, keyEnteredFor, parserVars >>
    /\ IF file.type # "application/pdf"
       THEN /\ ev' = Event("handleFile", "rejected", "Invalid file type")
            /\ UNCHANGED extracting
       ELSE IF file.size > MaxFileSize
       THEN /\ ev' = Event("handleFile", "rejected", "File too large")
            /\ UNCHANGED extracting
       ELSE /\ BagCardinality(extracting) < MaxExtractions
            /\ ev' = Event("handleFile", "started", "Processing PDF")
            /\ extracting' = extracting (+) SetToBag({file})

\* Index.handleFileUpload, and the mount of ChatInterface when none is rendered
handleFileUpload(file) ==
    /\ uploadedFile' = file
    /\ IF mounted
       THEN UNCHANGED << nMounts, mounted, chatVars >>
       ELSE Mount(file.name)

\* what the await of processPDF comes to: the text of the file, or a rejection
ExtractionOutcomes == {"resolved", "rejected"}

\* DragDropZone.handleFile after its await of processPDF (lines 65-89); each call
\* has its own continuation, and onFileUpload is the handleFileUpload of Index,
\* which runs whether or not the drop zone is still rendered
handleFileExtracted(file, outcome) ==
    /\ BagIn(file, extracting)
    /\ extracting' = extracting (-) SetToBag({file})
    /\ UNCHANGED << localStorage, requests, now, needKey, keyEnteredFor, parserVars >>
    /\ IF outcome = "rejected"
       THEN /\ ev' = Event("handleFile.await", "failed", "Processing failed")
            /\ UNCHANGED << uploadedFile, nMounts, mounted, chatVars >>
       ELSE IF Trim(file.text) = <<>>
       THEN /\ ev' = Event("handleFile.await", "rejected", "No text found")
            /\ UNCHANGED << uploadedFile, nMounts, mounted, chatVars >>
       ELSE /\ (~mounted => nMounts < MaxMounts)
            /\ handleFileUpload(file)
            /\ ev' = Event("handleFile.await", "uploaded", "PDF uploaded successfully!")

\* Index.handleNewDocument, and the unmount of ChatInterface
handleNewDocument ==
    /\ uploadedFile' = NoFile
    /\ Unmounted
    /\ ev' = Event("handleNewDocument", "done", NoToast)
    /\ UNCHANGED << extracting, nMounts, localStorage, requests, now, needKey, keyEnteredFor, parserVars >>

----------------------------------------------------------------------------
(* ChatInterface handlers *)

\* line 642: onChange of the question input
setInputValue(value) ==
    /\ mounted
    /\ inputValue' = value
    /\ ev' = Event("setInputValue", "done", NoToast)
    /\ UNCHANGED << indexVars, messages, isLoading, apiKey, aiProvider, localStorage,
                    requests, now, needKey, keyEnteredFor, parserVars >>

\* faulty variant: the question is stored trimmed
UserMessageTrimmed ==
    [id |-> now, text |-> Trim(inputValue), sender |-> "user", chartData |-> NoChartData]

\* lines 433-438
UserMessage ==
    [id |-> now, text |-> inputValue, sender |-> "user",
     chartData |-> NoChartData]

\* faulty variant: callAI ignores the selection and always calls callGemini
DispatchedToDefault ==
    [inst |-> nMounts, provider |-> "gemini", key |-> apiKey, question |-> inputValue,
     status |-> "pending"]

\* the fetch that callAI(inputValue) dispatches before handleSubmit suspends
Dispatched ==
    [inst |-> nMounts, provider |-> aiProvider, key |-> apiKey, question |-> inputValue,
     status |-> "pending"]

\* the entry of a fetch whose handleSubmit call has run to its end
Settled(rid) ==
    [inst |-> requests[rid].inst, provider |-> "", key |-> "", question |-> <<>>,
     status |-> "settled"]

\* faulty variant: !inputValue, without the trim
InputMissingUntrimmed == inputValue = <<>>

\* line 422: !inputValue.trim()
InputMissing == Trim(inputValue) = <<>>

\* faulty variant: the missing key returns without a toast
KeyRequiredEventSilent == Event("handleSubmit", "rejected", NoToast)

\* lines 424-431: the toast of the missing key
KeyRequiredEvent == Event("handleSubmit", "rejected", "API Key Required")

\* faulty variant: setIsLoading(true) is missing
handleSubmitWithoutPending ==
    /\ mounted
    /\ UNCHANGED << indexVars, apiKey, aiProvider, localStorage, now, needKey, keyEnteredFor, parserVars >>
    /\ IF InputMissing
       THEN /\ ev' = Event("handleSubmit", "ignored", NoToast)
            /\ UNCHANGED << messages, inputValue, isLoading, requests >>
       ELSE IF apiKey = ""
       THEN /\ ev' = KeyRequiredEvent
            /\ UNCHANGED << messages, inputValue, isLoading, requests >>
       ELSE /\ Len(requests) < MaxRequests
            /\ messages' = Append(messages, UserMessage)
            /\ inputValue' = <<>>
            /\ UNCHANGED isLoading
            /\ requests' = Append(requests, Dispatched)
            /\ ev' = Event("handleSubmit", "accepted", NoToast)

\* faulty variant: the test of the key (lines 424-431) is missing
handleSubmitWithoutKeyTest ==
    /\ mounted
    /\ UNCHANGED << indexVars, apiKey, aiProvider, localStorage, now, needKey, keyEnteredFor,
                    parserVars >>
    /\ IF InputMissing
       THEN /\ ev' = Event("handleSubmit", "ignored", NoToast)
            /\ UNCHANGED << messages, inputValue, isLoading, requests >>
       ELSE /\ Len(requests) < MaxRequests
            /\ messages' = Append(messages, UserMessage)
            /\ inputValue' = <<>>
            /\ isLoading' = TRUE
            /\ requests' = Append(requests, Dispatched)
            /\ ev' = Event("handleSubmit", "accepted", NoToast)

\* lines 419-445: handleSubmit up to its await
handleSubmit ==
    /\ mounted
    /\ UNCHANGED << indexVars, apiKey, aiProvider, localStorage, now, needKey, keyEnteredFor, parserVars >>
    /\ IF InputMissing
       THEN /\ ev' = Event("handleSubmit", "ignored", NoToast)
            /\ UNCHANGED << messages, inputValue, isLoading, requests >>
       ELSE IF apiKey = ""
       THEN /\ ev' = KeyRequiredEvent
            /\ UNCHANGED << messages, inputValue, isLoading, requests >>
       ELSE /\ Len(requests) < MaxRequests
            /\ messages' = Append(messages, UserMessage)
            /\ inputValue' = <<>>
            /\ isLoading' = TRUE
            /\ requests' = Append(requests, Dispatched)
            /\ ev' = Event("handleSubmit", "accepted", NoToast)

\* lines 462-468
AiMessage(extracted) ==
    [id |-> now + 1, text |-> extracted.cleanedText, sender |-> "ai",
     chartData |-> extracted.chartData]

\* faulty variant: the history is held outside the component instance
AliveInAnyInstance(rid) == mounted

\* the state setters of the instance that dispatched request rid reach its state
\* only while that instance is the mounted one
Alive(rid) == mounted /\ requests[rid].inst = nMounts

\* faulty variant: the catch block reports the error as an assistant turn
HistoryAfterCatchWithTurn(rid) ==
    IF mounted /\ requests[rid].inst = nMounts
    THEN Append(messages, [id |-> now + 1, text |-> <<"ERROR">>, sender |-> "ai",
                           chartData |-> JsonNull])
    ELSE messages

\* lines 471-478: the catch block raises a toast and leaves the history alone
HistoryAfterCatch(rid) == messages

\* faulty variant: setIsLoading(false) at the end of the try block, no finally
handleSubmitAwaitWithoutFinally(rid, resp) ==
    /\ rid \in 1..Len(requests)
    /\ requests[rid].status = "pending"
    /\ UNCHANGED << indexVars, inputValue, apiKey, aiProvider, localStorage, now, needKey, keyEnteredFor,
                    parserVars >>
    /\ LET aiResponse == callAI(requests[rid].provider, requests[rid].key, resp)
       IN IF aiResponse.threw \/ ~aiResponse.isString
          THEN /\ requests' = [requests EXCEPT ![rid] = Settled(rid)]
               /\ ev' = ResolveEvent("failed", "AI Error", rid, resp)
               /\ messages' = HistoryAfterCatch(rid)
               /\ UNCHANGED isLoading
          ELSE /\ requests' = [requests EXCEPT ![rid] = Settled(rid)]
               /\ ev' = ResolveEvent("resolved", NoToast, rid, resp)
               /\ isLoading' = (IF Alive(rid) THEN FALSE ELSE isLoading)
               /\ messages' = (IF Alive(rid)
                               THEN Append(messages, AiMessage(ExtractChart(aiResponse.value)))
                               ELSE messages)

\* lines 445-481: handleSubmit from the completion of its fetch
handleSubmitAwait(rid, resp) ==
    /\ rid \in 1..Len(requests)
    /\ requests[rid].status = "pending"
    /\ UNCHANGED << indexVars, inputValue, apiKey, aiProvider, localStorage, now, needKey, keyEnteredFor,
                    parserVars >>
    /\ isLoading' = (IF Alive(rid) THEN FALSE ELSE isLoading)
    /\ LET aiResponse == callAI(requests[rid].provider, requests[rid].key, resp)
       IN IF aiResponse.threw \/ ~aiResponse.isString
          THEN /\ requests' = [requests EXCEPT ![rid] = Settled(rid)]
               /\ ev' = ResolveEvent("failed", "AI Error", rid, resp)
               /\ messages' = HistoryAfterCatch(rid)
          ELSE /\ requests' = [requests EXCEPT ![rid] = Settled(rid)]
               /\ ev' = ResolveEvent("resolved", NoToast, rid, resp)
               /\ messages' = (IF Alive(rid)
                               THEN Append(messages, AiMessage(ExtractChart(aiResponse.value)))
                               ELSE messages)

\* faulty variant: the key is set in the component and not persisted
handleApiKeyChangeUnsaved(value) ==
    /\ mounted
    /\ apiKey' = value
    /\ needKey' = (needKey /\ value = "")
    /\ ev' = Event("handleApiKeyChange", "done", NoToast)
    /\ UNCHANGED << indexVars, messages, inputValue, isLoading, aiProvider, localStorage,
                    requests, now, keyEnteredFor, parserVars >>

\* lines 484-487
handleApiKeyChange(value) ==
    /\ mounted
    /\ apiKey' = value
    /\ localStorage' = [localStorage EXCEPT !.ai_api_key = value]
    /\ needKey' = (needKey /\ value = "")
    /\ keyEnteredFor' = (IF value = "" THEN "" ELSE aiProvider)
    /\ ev' = Event("handleApiKeyChange", "done", NoToast)
    /\ UNCHANGED << indexVars, messages, inputValue, isLoading, aiProvider, requests, now,
                    parserVars >>

\* faulty variant: the provider is changed and the key is left as it is
handleProviderChangeKeepsKey(provider) ==
    /\ mounted
    /\ aiProvider' = provider
    /\ localStorage' = [localStorage EXCEPT !.ai_provider = provider]
    /\ needKey' = TRUE
    /\ ev' = Event("handleProviderChange", "done", NoToast)
    /\ UNCHANGED << indexVars, messages, inputValue, isLoading, apiKey, requests, now,
                    keyEnteredFor, parserVars >>

\* faulty variant: the persisted key is not removed
handleProviderChangeKeepsStoredKey(provider) ==
    /\ mounted
    /\ aiProvider' = provider
    /\ apiKey' = ""
    /\ localStorage' = [localStorage EXCEPT !.ai_provider = provider]
    /\ needKey' = TRUE
    /\ UNCHANGED keyEnteredFor
    /\ ev' = Event("handleProviderChange", "done", NoToast)
    /\ UNCHANGED << indexVars, messages, inputValue, isLoading, requests, now, parserVars >>

\* lines 489-495
handleProviderChange(provider) ==
    /\ mounted
    /\ aiProvider' = provider
    /\ apiKey' = ""
    /\ localStorage' = [ai_provider |-> provider, ai_api_key |-> Null]
    /\ needKey' = TRUE
    /\ keyEnteredFor' = ""
    /\ ev' = Event("handleProviderChange", "done", NoToast)
    /\ UNCHANGED << indexVars, messages, inputValue, isLoading, requests, now, parserVars >>

\* faulty variant: the reset aborts the requests of the instance
resetApiKeyCancelling ==
    /\ mounted
    /\ apiKey' = ""
    /\ localStorage' = [localStorage EXCEPT !.ai_api_key = Null]
    /\ requests' = [rid \in 1..Len(requests) |->
                      IF requests[rid].status = "pending" /\ requests[rid].inst = nMounts
                      THEN Settled(rid) ELSE requests[rid]]
    /\ isLoading' = FALSE
    /\ ev' = Event("resetApiKey", "done", "API Key Reset")
    /\ keyEnteredFor' = ""
    /\ UNCHANGED << indexVars, messages, inputValue, aiProvider, now, needKey, parserVars >>

\* lines 497-504
resetApiKey ==
    /\ mounted
    /\ apiKey' = ""
    /\ localStorage' = [localStorage EXCEPT !.ai_api_key = Null]
    /\ ev' = Event("resetApiKey", "done", "API Key Reset")
    /\ UNCHANGED << indexVars, messages, inputValue, isLoading, aiProvider, requests, now,
                    needKey, parserVars >>
    /\ keyEnteredFor' = ""

\* the clock advances
Tick ==
    /\ now < Epoch + MaxTime
    /\ now' = now + 1
    /\ ev' = Event("tick", "done", NoToast)
    /\ UNCHANGED << indexVars, chatVars, localStorage, requests, needKey, keyEnteredFor, parserVars >>

----------------------------------------------------------------------------
(* The application as rendered: an event reaches its handler only through a
   control that is rendered and enabled *)

\* line 644: disabled of the question input
InputDisabled == isLoading \/ apiKey = ""

\* line 649: disabled of the send button; a form whose submit button is
\* disabled is not submitted by the Enter key either
SendDisabled == isLoading \/ Trim(inputValue) = <<>> \/ apiKey = ""

\* line 529: the key input is rendered while there is no key
KeyInputShown == apiKey = ""

\* line 627: the Change API Key button is rendered while there is a key
ResetShown == apiKey # ""

NoResult == [cleanedText |-> <<>>, chartData |-> NoChartData]

InitController ==
    /\ uploadedFile = NoFile
    /\ extracting = EmptyBag
    /\ nMounts = 0
    /\ mounted = FALSE
    /\ messages = <<>>
    /\ inputValue = <<>>
    /\ isLoading = FALSE
    /\ apiKey = ""
    /\ aiProvider = "gemini"
    /\ localStorage = [ai_provider |-> Null, ai_api_key |-> Null]
    /\ requests = <<>>
    /\ now = Epoch
    /\ ev = Event("init", "done", NoToast)
    /\ needKey = FALSE
    /\ keyEnteredFor = ""

Init ==
    /\ InitController
    /\ pc = "idle"
    /\ reply = <<>>
    /\ parsed = NoResult
    /\ reparsed = NoResult

DropFile == \E file \in Files : ~mounted /\ handleFile(file)

ExtractionDone ==
    \E file \in Files, outcome \in ExtractionOutcomes : handleFileExtracted(file, outcome)

ClickNewDocument == mounted /\ handleNewDocument

TypeQuestion == \E value \in InputValues : mounted /\ ~InputDisabled /\ setInputValue(value)

ClickSend == mounted /\ ~SendDisabled /\ handleSubmit

FetchCompletes == \E rid \in 1..Len(requests), resp \in Responses : handleSubmitAwait(rid, resp)

TypeKey ==
    \E value \in KeyValues \ {""} : mounted /\ KeyInputShown /\ handleApiKeyChange(value)

SelectProvider == \E provider \in Providers : handleProviderChange(provider)

ClickReset == mounted /\ ResetShown /\ resetApiKey

Next ==
    \/ DropFile
    \/ ExtractionDone
    \/ ClickNewDocument
    \/ TypeQuestion
    \/ ClickSend
    \/ FetchCompletes
    \/ TypeKey
    \/ SelectProvider
    \/ ClickReset
    \/ Tick

Spec == Init /\ [][Next]_vars

----------------------------------------------------------------------------
(* One ChatInterface instance, freshly mounted for a.pdf in a new browser
   profile, whose handlers are called in any order with any argument, as a
   submit event dispatched on the form or a test of the component calls them.
   The clock is held: this specification is for what the handlers do to the
   controller's state, in which the ids play no part. *)

TheFile == CHOOSE file \in Files : file.name = "a.pdf"

InitHandlers ==
    /\ uploadedFile = TheFile
    /\ extracting = EmptyBag
    /\ nMounts = 1
    /\ mounted = TRUE
    /\ messages = << Greeting("a.pdf") >>
    /\ inputValue = <<>>
    /\ isLoading = FALSE
    /\ apiKey = ""
    /\ aiProvider = "gemini"
    /\ localStorage = [ai_provider |-> Null, ai_api_key |-> Null]
    /\ requests = <<>>
    /\ now = Epoch
    /\ ev = Event("handleFile.await", "uploaded", "PDF uploaded successfully!")
    /\ needKey = FALSE
    /\ keyEnteredFor = ""
    /\ pc = "idle"
    /\ reply = <<>>
    /\ parsed = NoResult
    /\ reparsed = NoResult

CallSetInputValue == \E value \in InputValues : setInputValue(value)

CallHandleSubmit == handleSubmit

CallHandleApiKeyChange == \E value \in KeyValues : handleApiKeyChange(value)

CallResetApiKey == resetApiKey

NextHandlers ==
    \/ CallSetInputValue
    \/ CallHandleSubmit
    \/ FetchCompletes
    \/ CallHandleApiKeyChange
    \/ SelectProvider
    \/ CallResetApiKey

SpecHandlers == InitHandlers /\ [][NextHandlers]_vars

----------------------------------------------------------------------------
(* The chart extraction alone, on every reply made of at most MaxSegs segments *)

Segments ==
    { <<"A">>, <<"SP">>, <<"NL">>, <<"BT">>, <<"CH">>, <<"JC">>,
      <<"BT", "CH", "NL">>, <<"NL", "BT">>,
      Block(<<"JC">>), Block(<<"JO">>), Block(<<"J0">>), Block(<<"JN">>),
      Block(<<"A">>), Block(<<>>),
      <<"CH", "NL", "JC", "NL", "BT">> }

RECURSIVE Concat(_)
Concat(segs) == IF segs = <<>> THEN <<>> ELSE Head(segs) \o Concat(Tail(segs))

ParserReplies ==
    { Concat(segs) : segs \in UNION { [1..n -> Segments] : n \in 0..MaxSegs } }

ParserInit ==
    /\ InitController
    /\ pc = "start"
    /\ reply \in ParserReplies
    /\ parsed = NoResult
    /\ reparsed = NoResult

ParseReply ==
    /\ pc = "start"
    /\ pc' = "parsed"
    /\ parsed' = ExtractChart(reply)
    /\ UNCHANGED << indexVars, chatVars, localStorage, requests, now, ev, needKey, keyEnteredFor,
                    reply, reparsed >>

ParseDisplayText ==
    /\ pc = "parsed"
    /\ pc' = "reparsed"
    /\ reparsed' = ExtractChart(parsed.cleanedText)
    /\ UNCHANGED << indexVars, chatVars, localStorage, requests, now, ev, needKey, keyEnteredFor,
                    reply, parsed >>

ParserNext == ParseReply \/ ParseDisplayText

ParserSpec == ParserInit /\ [][ParserNext]_vars

----------------------------------------------------------------------------
(* Claims about the conversation controller *)

IsHandleSubmit == ev'.op = "handleSubmit"
IsAwait == ev'.op = "handleSubmit.await"

PendingOf(i) == { rid \in 1..Len(requests) :
                    requests[rid].status = "pending" /\ requests[rid].inst = i }

HasUserTurn(history, text) ==
    \E k \in 1..Len(history) : history[k].sender = "user" /\ history[k].text = text

\* C1: a submission whose trimmed input and whose key are not empty appends
\* exactly one user turn, carrying the input as submitted, at the end of the
\* history in the step that dispatches the request, and the turn is still there
\* once the request has succeeded or failed.
C1_UserTurnAppended ==
    /\ [][ IsHandleSubmit /\ Trim(inputValue) # <<>> /\ apiKey # ""
              => /\ Len(messages') = Len(messages) + 1
                 /\ SubSeq(messages', 1, Len(messages)) = messages
                 /\ messages'[Len(messages')].sender = "user"
                 /\ messages'[Len(messages')].text = inputValue
                 /\ Len(requests') = Len(requests) + 1
                 /\ requests'[Len(requests')].status = "pending"
                 /\ requests'[Len(requests')].question = inputValue ]_vars
    /\ [][ IsAwait /\ Alive(ev'.rid)
              => /\ HasUserTurn(messages, requests[ev'.rid].question)
                 /\ SubSeq(messages', 1, Len(messages)) = messages ]_vars

C1_Witness ==
    /\ ev.op = "handleSubmit.await" /\ ev.outcome = "failed"
    /\ mounted /\ requests[ev.rid].inst = nMounts
    /\ Len(messages) = 2
    /\ messages[2].sender = "user" /\ messages[2].text = <<"Q", "SP">>

\* C2: when the call of an accepted submission fails (the fetch rejects, the
\* status is not a success, or reading the reply throws), the step that handles
\* the failure appends no turn: the history is what it was, and it holds the user
\* turn of the submission.
C2_FailureAppendsNothing ==
    [][ IsAwait /\ (ev'.outcome = "failed" \/ ev'.kind \in {"networkError", "httpError"})
           => /\ messages' = messages
              /\ ev'.toast = "AI Error"
              /\ (Alive(ev'.rid) => HasUserTurn(messages', requests[ev'.rid].question)) ]_vars

C2_Witness ==
    /\ ev.op = "handleSubmit.await" /\ ev.outcome = "failed" /\ ev.kind = "httpOk"
    /\ mounted /\ requests[ev.rid].inst = nMounts
    /\ messages[Len(messages)].sender = "user"
    /\ ~isLoading

\* C3: a provider change leaves the key empty and the persisted ai_api_key
\* absent, nothing but handleApiKeyChange with a non-empty value makes the key
\* non-empty again, and until then no request is dispatched.
C3_ProviderChangeClearsKey ==
    /\ [][ ev'.op = "handleProviderChange"
              => apiKey' = "" /\ localStorage'.ai_api_key = Null ]_vars
    /\ [](needKey => apiKey = "")
    /\ [][ needKey => Len(requests') = Len(requests) ]_vars
    /\ [][ needKey /\ ~needKey' => ev'.op = "handleApiKeyChange" /\ apiKey' # "" ]_vars

C3_Witness ==
    /\ needKey /\ mounted /\ nMounts = 2
    /\ \E rid \in 1..Len(requests) : requests[rid].key # ""

\* C4: no instance ever has two requests in flight, the pending flag of the
\* mounted instance is set exactly while it has one, and while it is set no
\* step dispatches a request or appends a user turn.
C4_OneRequestInFlight ==
    /\ [](\A i \in 1..nMounts : Cardinality(PendingOf(i)) <= 1)
    /\ [](mounted => (isLoading <=> PendingOf(nMounts) # {}))
    /\ [][ isLoading => /\ Len(requests') = Len(requests)
                        /\ (Len(messages') > Len(messages)
                              => messages'[Len(messages')].sender = "ai") ]_vars

C4_Witness ==
    /\ mounted /\ isLoading /\ nMounts = 2
    /\ PendingOf(1) # {} /\ PendingOf(2) # {}

\* C5: a ChatInterface mounted for a newly loaded document starts with the
\* greeting alone, and the reply of a request dispatched by an earlier instance
\* changes nothing of the mounted one: every turn after the greeting belongs to
\* a request of the mounted instance.
C5_StaleReplyDiscarded ==
    /\ [][ ~mounted /\ mounted' => messages' = << Greeting(uploadedFile'.name) >> ]_vars
    /\ [][ IsAwait /\ requests[ev'.rid].inst # nMounts
              => messages' = messages /\ isLoading' = isLoading ]_vars
    /\ [](mounted =>
            /\ messages[1].id = 1 /\ messages[1].sender = "ai"
            /\ Len(messages) <= 1 + 2 * Cardinality({ rid \in 1..Len(requests) :
                                                        requests[rid].inst = nMounts }))

C5_Witness ==
    /\ mounted /\ nMounts = 2
    /\ ev.op = "handleSubmit.await" /\ ev.outcome = "resolved"
    /\ requests[ev.rid].inst = 1
    /\ messages = << Greeting(uploadedFile.name) >>

\* C6: a call of handleSubmit with an input that is empty after trimming, or
\* with an empty key, changes neither the history, the pending flag, the input,
\* the key, the provider nor the persisted entries, and dispatches nothing.
C6_RejectionChangesNothing ==
    [][ IsHandleSubmit /\ (Trim(inputValue) = <<>> \/ apiKey = "")
           => UNCHANGED << messages, isLoading, inputValue, apiKey, aiProvider,
                           localStorage, requests >> ]_vars

C6_Witness ==
    /\ ev.op = "handleSubmit" /\ ev.outcome = "ignored"
    /\ inputValue = <<"SP">> /\ apiKey # ""
    /\ isLoading

\* C7 as stated: every call of handleSubmit rejected at validation raises a toast.
C7_EveryRejectionNotifies ==
    [][ IsHandleSubmit /\ (Trim(inputValue) = <<>> \/ apiKey = "")
           => ev'.toast # NoToast ]_vars

\* C7 as amended: a call of handleSubmit with a non-empty input and an empty key
\* raises the "API Key Required" toast; a call with an input that is empty after
\* trimming returns without a toast, whatever the key.
C7_OnlyMissingKeyNotifies ==
    [][ IsHandleSubmit
           => /\ (Trim(inputValue) # <<>> /\ apiKey = "" => ev'.toast = "API Key Required")
              /\ (Trim(inputValue) = <<>> => ev'.toast = NoToast) ]_vars

C7_Witness ==
    /\ ev.op = "handleSubmit" /\ ev.toast = "API Key Required"
    /\ Trim(inputValue) # <<>> /\ apiKey = ""

----------------------------------------------------------------------------
(* Claims about the chart extraction *)

\* the ChartDescription shape of the Message interface, lines 261-268
IsChartDescription(v) ==
    v.json = "object" /\ v.type \in {"bar", "line", "pie"} /\ v.data = "array"

Unextracted(text) == [cleanedText |-> text, chartData |-> JsonNull]

\* the first chart block of s, if it has one, holds text that JSON.parse accepts
FirstBlockParses(s) ==
    ChartMatch(s).found /\ JSONparse(MatchGroup(s, ChartMatch(s))).ok

Contains(s, t) == \E k \in 1..(Len(s) + 1) : SubSeq(s, k, k + Len(t) - 1) = t

\* C8: for every reply the extraction gives either the reply as it is with no
\* payload, or the reply without its chart block together with a payload that
\* is a chart description.
C8_TwoOutcomeShapes ==
    pc # "start"
      => \/ parsed = Unextracted(reply)
         \/ /\ ChartMatch(reply).found
            /\ parsed.cleanedText = Trim(ReplaceMatch(reply, ChartMatch(reply)))
            /\ IsChartDescription(parsed.chartData)

\* C9 as stated: the extraction applied to the display text of a first
\* extraction gives that text back with no payload.
C9_Idempotent ==
    pc = "reparsed" => reparsed = Unextracted(parsed.cleanedText)

\* C9 as amended: the extraction applied to the display text of a first
\* extraction gives that text back with no payload exactly when the first chart
\* block of that display text, if there is one, does not parse; when it parses
\* (a second block of the reply, or one put together by the removal of the
\* first), the second extraction removes it.
C9_IdempotentUnlessBlockRemains ==
    pc = "reparsed"
      => IF FirstBlockParses(parsed.cleanedText)
         THEN /\ Len(reparsed.cleanedText) < Len(parsed.cleanedText)
              /\ reparsed # Unextracted(parsed.cleanedText)
         ELSE reparsed = Unextracted(parsed.cleanedText)

C9_Witness ==
    /\ pc = "reparsed"
    /\ parsed.chartData = JsonValue("JC")
    /\ ChartMatch(parsed.cleanedText).found
    /\ reparsed = Unextracted(parsed.cleanedText)

\* C10: when the text from the first chart opener that has a closing fence after
\* it up to the nearest such fence holds valid JSON, the display text is the
\* reply without that text and its two fences, trimmed, the payload is the parsed
\* JSON, and a chart block after it is still in the display text.
C10_FirstBlockExtracted ==
    pc # "start"
      => \A i \in 1..Len(reply), j \in 1..Len(reply) :
            ( /\ IsOpenerAt(reply, i) /\ j >= i + 3 /\ IsCloserAt(reply, j)
              /\ \A k \in (i + 3)..(j - 1) : ~IsCloserAt(reply, k)
              /\ \A h \in 1..(i - 1) :
                    ~(IsOpenerAt(reply, h) /\ \E k \in (h + 3)..Len(reply) : IsCloserAt(reply, k))
              /\ JSONparse(SubSeq(reply, i + 3, j - 1)).ok )
            => LET before == SubSeq(reply, 1, i - 1)
                   after == SubSeq(reply, j + 2, Len(reply))
               IN /\ parsed.cleanedText = Trim(before \o after)
                  /\ parsed.chartData = JSONparse(SubSeq(reply, i + 3, j - 1)).value
                  /\ (ChartMatch(after).found
                        => Contains(parsed.cleanedText,
                                    SubSeq(after, ChartMatch(after).start,
                                           ChartMatch(after).close + 1)))

C10_Witness ==
    /\ pc = "parsed"
    /\ parsed.chartData = JsonValue("JC")
    /\ FirstBlockParses(parsed.cleanedText)
    /\ parsed.cleanedText # reply

----------------------------------------------------------------------------
(* Claims about the replies of the provider *)

\* the reply has a chart block, the first one, whose contents JSON.parse rejects
HasUnparsableBlock(s) ==
    /\ ChartMatch(s).found
    /\ \A tok \in JsonTokens : Trim(MatchGroup(s, ChartMatch(s))) # <<tok>>

\* a success response whose generated text is text
TextResponse(text) == [kind |-> "httpOk", body |-> [shape |-> "text", text |-> text]]

\* the replies of the model that have such a block
UnparsableReplies == { text \in SampleReplies : HasUnparsableBlock(text) }

\* C11: when the reply of a request of the mounted instance has a chart block
\* whose contents do not parse, the step that handles the reply appends one
\* assistant turn whose text is the reply as it came, block included, and whose
\* chartData is null, it raises no toast and it clears the pending flag.
C11_UnparsableBlockKeptAsText ==
    [][ ( /\ IsAwait /\ ev'.kind = "httpOk" /\ ev'.shape = "text"
          /\ Alive(ev'.rid) )
        => \A text \in UnparsableReplies :
              handleSubmitAwait(ev'.rid, TextResponse(text))
              => /\ messages' = Append(messages,
                                       [id |-> now + 1, text |-> text,
                                        sender |-> "ai", chartData |-> JsonNull])
                 /\ ev'.outcome = "resolved"
                 /\ ev'.toast = NoToast
                 /\ ~isLoading' ]_vars

C11_Witness ==
    /\ ev.op = "handleSubmit.await" /\ ev.outcome = "resolved" /\ ev.toast = NoToast
    /\ mounted /\ requests[ev.rid].inst = nMounts
    /\ ~isLoading
    /\ Len(messages) = 3
    /\ messages[3].sender = "ai"
    /\ messages[3].text = Block(<<"A">>)
    /\ messages[3].chartData = JsonNull

\* the envelopes of a success response that carry no generated text
TextlessShapes == {"noList", "emptyList", "noText", "emptyText"}

\* C12: for either provider, a success response whose envelope carries no
\* generated text makes the step that handles it append one assistant turn whose
\* text is the fallback string, without an error toast.
C12_FallbackOnTextlessEnvelope ==
    [][ ( /\ IsAwait /\ Alive(ev'.rid)
          /\ ev'.kind = "httpOk" /\ ev'.shape \in TextlessShapes )
        => /\ ev'.outcome = "resolved"
           /\ ev'.toast = NoToast
           /\ messages' = Append(messages,
                                 [id |-> now + 1, text |-> Fallback, sender |-> "ai",
                                  chartData |-> JsonNull]) ]_vars

\* C13: a step dispatches a request exactly when it is an accepted submission;
\* it dispatches one, to the provider selected in the state the submission was
\* made in; the step that handles the completion or the failure of a request
\* dispatches none and leaves the request settled.  So the number of requests
\* dispatched is at every moment the number of submissions accepted.
C13_OneCallPerAcceptedSubmission ==
    /\ [][ Len(requests') # Len(requests)
              <=> (IsHandleSubmit /\ ev'.outcome = "accepted") ]_vars
    /\ [][ IsHandleSubmit /\ ev'.outcome = "accepted"
              => /\ Len(requests') = Len(requests) + 1
                 /\ SubSeq(requests', 1, Len(requests)) = requests
                 /\ requests'[Len(requests')].status = "pending"
                 /\ requests'[Len(requests')].provider = aiProvider
                 /\ requests'[Len(requests')].question = inputValue ]_vars
    /\ [][ IsAwait
              => /\ Len(requests') = Len(requests)
                 /\ requests[ev'.rid].status = "pending"
                 /\ requests'[ev'.rid].status = "settled"
                 /\ \A r \in 1..Len(requests) : r # ev'.rid => requests'[r] = requests[r] ]_vars

C13_Witness ==
    /\ ev.op = "handleSubmit.await" /\ ev.outcome = "failed" /\ ev.kind = "httpError"
    /\ mounted /\ requests[ev.rid].inst = nMounts
    /\ aiProvider = "openai" /\ apiKey # ""
    /\ Len(requests) = 1
    /\ requests[1].status = "settled"
    /\ Len(messages) = 2

----------------------------------------------------------------------------
(* The application as rendered, with every fetch coming to an end: a fetch that
   is pending either resolves or rejects *)

FairSpec == Spec /\ WF_vars(FetchCompletes)

\* C14: an accepted submission sets the pending flag; the step that handles the
\* end of the request of the mounted instance clears it, and when the call
\* succeeded it appends in that step exactly one assistant turn, after the user
\* turn of the submission; and, every fetch coming to an end, the pending flag
\* does not stay set for ever.
C14_PendingReturnsToIdle ==
    /\ [][ IsHandleSubmit /\ ev'.outcome = "accepted" => ~isLoading /\ isLoading' ]_vars
    /\ [][ IsAwait /\ Alive(ev'.rid)
              => /\ isLoading /\ ~isLoading'
                 /\ HasUserTurn(messages, requests[ev'.rid].question)
                 /\ IF ev'.outcome = "resolved"
                    THEN /\ Len(messages') = Len(messages) + 1
                         /\ SubSeq(messages', 1, Len(messages)) = messages
                         /\ messages'[Len(messages')].sender = "ai"
                    ELSE messages' = messages ]_vars
    /\ (isLoading ~> ~isLoading)

C14_Witness ==
    /\ ev.op = "handleSubmit.await" /\ ev.outcome = "resolved"
    /\ mounted /\ requests[ev.rid].inst = nMounts
    /\ ~isLoading
    /\ Len(messages) = 3
    /\ messages[2].sender = "user" /\ messages[3].sender = "ai"
    /\ messages[3].text = Fallback

----------------------------------------------------------------------------
(* Claims about the ids, the credential and the persisted entries *)

\* C15: the turns of the history of the mounted instance have pairwise
\* distinct ids.
C15_DistinctIds ==
    \A j \in 1..Len(messages), k \in 1..Len(messages) :
        j # k => messages[j].id # messages[k].id

\* C16: the key held by the mounted instance, when it is not empty, is the
\* persisted key and was entered while the provider now selected was selected;
\* and the request of an accepted submission carries that key to the provider
\* that was selected when the key was entered.
C16_KeySentToItsProvider ==
    /\ [](mounted /\ apiKey # ""
            => localStorage.ai_api_key = apiKey /\ keyEnteredFor = aiProvider)
    /\ [][ IsHandleSubmit /\ ev'.outcome = "accepted"
              => /\ requests'[Len(requests')].key = apiKey
                 /\ requests'[Len(requests')].provider = keyEnteredFor ]_vars
    /\ [][ \A r \in 1..Len(requests) :
              requests'[r].status = "pending"
                => requests'[r].key = requests[r].key
                   /\ requests'[r].provider = requests[r].provider ]_vars

C16_Witness ==
    /\ mounted /\ aiProvider = "gemini" /\ apiKey = "kA" /\ keyEnteredFor = "gemini"
    /\ \E rid \in 1..Len(requests) :
          /\ requests[rid].status = "pending"
          /\ requests[rid].provider = "openai" /\ requests[rid].key = "kA"

----------------------------------------------------------------------------
(* Claims checked with the handlers called directly *)

\* C17: every request in flight carries a key that is not empty, and the
\* request of an accepted submission carries the key the instance held when the
\* submission was made.
C17_NoRequestWithoutKey ==
    /\ [](\A rid \in 1..Len(requests) :
             requests[rid].status = "pending" => requests[rid].key # "")
    /\ [][ Len(requests') > Len(requests)
              => /\ IsHandleSubmit
                 /\ apiKey # ""
                 /\ requests'[Len(requests')].key = apiKey ]_vars

C17_Witness ==
    /\ mounted /\ apiKey = ""
    /\ ev.op = "handleSubmit" /\ ev.outcome = "rejected"
    /\ Trim(inputValue) # <<>>
    /\ \E rid \in 1..Len(requests) :
          requests[rid].status = "pending" /\ requests[rid].key = "kB"

----------------------------------------------------------------------------
(* Claims about a request in flight while the credential changes *)

NetworkFailure == [kind |-> "networkError", body |-> [shape |-> "invalidJSON", text |-> <<>>]]
PlainSuccess == [kind |-> "httpOk", body |-> [shape |-> "emptyText", text |-> <<>>]]

\* C18: a provider change or a key reset leaves the requests, the pending flag
\* and the history as they are; while the key is empty a request in flight can
\* still come to its end, by a failure or by a reply;
\* and when the request of the mounted instance succeeds after the key was
\* emptied, its assistant turn is appended to the history all the same.
C18_NoCancellation ==
    /\ [][ ev'.op \in {"handleProviderChange", "resetApiKey"}
              => requests' = requests /\ isLoading' = isLoading /\ messages' = messages ]_vars
    /\ [](\A rid \in 1..Len(requests) :
             requests[rid].status = "pending" /\ apiKey = ""
               => /\ ENABLED handleSubmitAwait(rid, NetworkFailure)
                  /\ ENABLED handleSubmitAwait(rid, PlainSuccess))
    /\ [][ ( /\ IsAwait /\ ev'.kind = "httpOk" /\ ev'.shape = "text"
              /\ Alive(ev'.rid)
              /\ apiKey = "" )
            => \A text \in SampleReplies :
                  handleSubmitAwait(ev'.rid, TextResponse(text))
                    => /\ messages' = Append(messages, AiMessage(ExtractChart(text)))
                       /\ ev'.outcome = "resolved" ]_vars

C18_Witness ==
    /\ ev.op = "handleSubmit.await" /\ ev.outcome = "resolved" /\ ev.shape = "text"
    /\ mounted /\ requests[ev.rid].inst = nMounts
    /\ apiKey = "" /\ localStorage.ai_api_key = Null
    /\ needKey
    /\ Len(messages) = 3 /\ messages[3].sender = "ai"

----------------------------------------------------------------------------
(* Claims about the persisted entries *)

\* what a new instance reads from the persisted entries (lines 289-290)
StoredKey == IF localStorage.ai_api_key = Null THEN "" ELSE localStorage.ai_api_key
StoredProvider == IF localStorage.ai_provider = Null THEN "gemini" ELSE localStorage.ai_provider

\* C19: while an instance is mounted, its key is the persisted ai_api_key
\* (absent read as empty) and its provider the persisted ai_provider (absent
\* read as gemini); the entries change only in handleApiKeyChange,
\* handleProviderChange and resetApiKey; an instance mounted later starts with
\* the persisted key and provider; and the request of an accepted submission
\* carries the persisted key.
C19_MemoryAgreesWithStorage ==
    /\ [](mounted => apiKey = StoredKey /\ aiProvider = StoredProvider)
    /\ [][ localStorage' # localStorage \/ (mounted /\ mounted' /\ apiKey' # apiKey)
              => ev'.op \in {"handleApiKeyChange", "handleProviderChange", "resetApiKey"} ]_vars
    /\ [][ ~mounted /\ mounted' => apiKey' = StoredKey /\ aiProvider' = StoredProvider ]_vars
    /\ [][ IsHandleSubmit /\ ev'.outcome = "accepted"
              => requests'[Len(requests')].key = StoredKey ]_vars

C19_Witness ==
    /\ mounted /\ nMounts = 2
    /\ apiKey = "kB" /\ aiProvider = "openai"
    /\ localStorage = [ai_provider |-> "openai", ai_api_key |-> "kB"]
    /\ ev.op = "handleFile.await" /\ ev.outcome = "uploaded"

====
